---- MODULE Spec2Model ----
(***************************************************************************)
(* Host package-manifest generation of the Lacework CLI                    *)
(* (cliState.GeneratePackageManifest and its helpers).                     *)
(*                                                                         *)
(* Go strings are modelled as sequences of one-character strings, so that  *)
(* strings.Contains, TrimPrefix, Split, Replace, Trim ... are computed the *)
(* way the library computes them.  Package-manager names, error values and *)
(* telemetry keys are only compared for equality and are TLA+ strings.     *)
(***************************************************************************)
EXTENDS Integers, Sequences, FiniteSets, TLC

VARIABLES
    SupportedPackageManagers, \* the exported list probed by DetectPackageManager
    pc,                       \* position of the call in flight
    osInfo,                   \* *OS returned by GetOSInfo
    probes,                   \* presence checks made so far: [manager, present]
    lastWhich,                \* outcome of `which` in the latest presence check
    lastNative,               \* outcome of `command -v` there ("none": not run)
    manager,                  \* the detected package manager
    cmds,                     \* commands run so far, in order: [cmd, ok] (probes excluded)
    managerQuery,             \* raw listing handed to the parser
    manifest,                 \* manifest.OsPkgInfoList before kernel filtering
    activeKernel,             \* [detected, value] of detectActiveKernel
    event,                    \* c.Event feature fields (key -> value)
    sent,                     \* number of SendHoneyvent calls
    err,                      \* the function-scope `err` the deferred closure reads
    retErr,                   \* the error value returned to the caller
    retManifest,              \* OsPkgInfoList of the returned manifest
    again                     \* result of a second removeInactivePackagesFromManifest

vars == <<SupportedPackageManagers, pc, osInfo, probes, lastWhich, lastNative,
          manager, cmds, managerQuery, manifest, activeKernel, event, sent,
          err, retErr, retManifest, again>>

(***************************************************************************)
(* Bounds of the model.                                                    *)
(***************************************************************************)
MaxManagers == 2   \* length of SupportedPackageManagers
MaxLines == 2      \* lines in one listing output
MaxRecords == 3    \* records of a manifest handed directly to the filter

(***************************************************************************)
(* Package strings (Go's strings package), on sequences of characters.     *)
(***************************************************************************)
NL == "\n"
Comma == ","
Colon == ":"
Hyphen == "-"
Quote == "\""

HasPrefix(s, prefix) ==
    /\ Len(prefix) <= Len(s)
    /\ SubSeq(s, 1, Len(prefix)) = prefix

HasSuffix(s, suffix) ==
    /\ Len(suffix) <= Len(s)
    /\ SubSeq(s, Len(s) - Len(suffix) + 1, Len(s)) = suffix

\* strings.Index: 0-based offset of the first occurrence of substr, -1 if none
Index(s, substr) ==
    LET hits == {i \in 0..(Len(s) - Len(substr)) :
                    SubSeq(s, i + 1, i + Len(substr)) = substr}
    IN IF hits = {} THEN -1
       ELSE CHOOSE i \in hits : \A j \in hits : i <= j

Contains(s, substr) == Index(s, substr) >= 0

TrimPrefix(s, prefix) ==
    IF HasPrefix(s, prefix) THEN SubSeq(s, Len(prefix) + 1, Len(s)) ELSE s

TrimSuffix(s, suffix) ==
    IF HasSuffix(s, suffix) THEN SubSeq(s, 1, Len(s) - Len(suffix)) ELSE s

\* strings.Split(s, sep) for a one-character separator
RECURSIVE Split(_, _)
Split(s, sep) ==
    LET i == Index(s, <<sep>>)
    IN IF i < 0 THEN <<s>>
       ELSE <<SubSeq(s, 1, i)>> \o Split(SubSeq(s, i + 2, Len(s)), sep)

RECURSIVE Join(_, _)
Join(elems, sep) ==
    IF elems = <<>> THEN <<>>
    ELSE IF Len(elems) = 1 THEN elems[1]
    ELSE elems[1] \o <<sep>> \o Join(Tail(elems), sep)

\* strings.Replace(s, old, "", 1): the first occurrence of old is deleted
ReplaceFirstWithEmpty(s, old) ==
    LET i == Index(s, old)
    IN IF i < 0 THEN s
       ELSE SubSeq(s, 1, i) \o SubSeq(s, i + Len(old) + 1, Len(s))

\* strings.Trim(s, cutset) for a one-character cutset
RECURSIVE TrimLeft(_, _)
TrimLeft(s, c) ==
    IF s # <<>> /\ Head(s) = c THEN TrimLeft(Tail(s), c) ELSE s

RECURSIVE TrimRight(_, _)
TrimRight(s, c) ==
    IF s # <<>> /\ s[Len(s)] = c THEN TrimRight(SubSeq(s, 1, Len(s) - 1), c) ELSE s

Trim(s, c) == TrimRight(TrimLeft(s, c), c)

(***************************************************************************)
(* Literals of the source.                                                 *)
(***************************************************************************)
IdPrefix == <<"I", "D", "=">>                                   \* ^ID=(.*)$
VersionIdPrefix ==
    <<"V", "E", "R", "S", "I", "O", "N", "_", "I", "D", "=">>  \* ^VERSION_ID=(.*)$
KernelPkgNameRpm == <<"k", "e", "r", "n", "e", "l">>            \* "kernel"
KernelPkgNameDpkg ==
    <<"l", "i", "n", "u", "x", "-", "i", "m", "a", "g", "e", "-">> \* "linux-image-"

ErrNil == "nil"
ErrUnsupportedPlatform == "unsupported platform"
ErrNoPackageManager == "unable to find supported package managers."
ErrQuery == "unable to query packages from package manager"
ErrYum == "yum not yet supported"
ErrMistake == "this is most likely a mistake on us"

(***************************************************************************)
(* GetOSInfo: scan the release file line by line.                          *)
(***************************************************************************)
CR == "\r"

\* bufio.MaxScanTokenSize: the scanner's buffer; a line that fills it without
\* a newline ends the scan (bufio.ErrTooLong, which GetOSInfo does not look at)
MaxScanTokenSize == 65536

\* dropCR: one trailing carriage return is dropped from a line
DropCR(line) ==
    IF line # <<>> /\ line[Len(line)] = CR THEN SubSeq(line, 1, Len(line) - 1) ELSE line

\* the lines before the first one too long for the scanner's buffer
RECURSIVE UntilTooLong(_)
UntilTooLong(lines) ==
    IF lines = <<>> \/ Len(Head(lines)) >= MaxScanTokenSize THEN <<>>
    ELSE <<Head(lines)>> \o UntilTooLong(Tail(lines))

\* bufio.ScanLines under Scanner.Scan: each line without its terminator (an
\* optional carriage return and the newline); no token for empty input
ScanLines(data) ==
    IF data = <<>> THEN <<>>
    ELSE LET raw == UntilTooLong(Split(TrimSuffix(data, <<NL>>), NL))
         IN [k \in 1..Len(raw) |-> DropCR(raw[k])]

RECURSIVE ScanOSRelease(_, _)
ScanOSRelease(lines, info) ==
    IF lines = <<>> THEN info
    ELSE LET line == Head(lines)
             next == IF HasPrefix(line, IdPrefix)
                        THEN [info EXCEPT !.Name = Trim(TrimPrefix(line, IdPrefix), Quote)]
                     ELSE IF HasPrefix(line, VersionIdPrefix)
                        THEN [info EXCEPT
                                !.Version = Trim(TrimPrefix(line, VersionIdPrefix), Quote)]
                     ELSE info
         IN ScanOSRelease(Tail(lines), next)

EmptyOS == [Name |-> <<>>, Version |-> <<>>]

\* file: [ok |-> os.Open succeeded, data |-> contents]
GetOSInfo(file) ==
    IF ~file.ok
        THEN [osInfo |-> EmptyOS, err |-> ErrUnsupportedPlatform]
        ELSE [osInfo |-> ScanOSRelease(ScanLines(file.data), EmptyOS), err |-> ErrNil]

(***************************************************************************)
(* checkPackageManager / checkPackageManagerWithNativeCommand.             *)
(* A lookup command ends in one of four ways:                              *)
(*   "exit0"      it ran and exited with status 0      (err == nil)        *)
(*   "exit1"      it ran and exited non-zero           (an exec.ExitError) *)
(*   "signaled"   it ran and was killed by a signal    (an exec.ExitError) *)
(*   "notstarted" it could not be invoked              (any other error)   *)
(***************************************************************************)
LookupOutcomes == {"exit0", "exit1", "signaled", "notstarted"}

IsExitError(outcome) == outcome \in {"exit1", "signaled"}

\* syscall.WaitStatus.ExitStatus(): -1 when the process did not exit
ExitStatus(outcome) ==
    IF outcome = "exit0" THEN 0 ELSE IF outcome = "exit1" THEN 1 ELSE -1

checkPackageManagerWithNativeCommand(native) ==
    IF native # "exit0"
        THEN IF IsExitError(native) THEN ExitStatus(native) = 0 ELSE FALSE
        ELSE ExitStatus(native) = 0

\* present: the value returned; native: whether `command -v` was run
Checked(present, native) == [present |-> present, native |-> native]

\* mutant: every failure of `which` falls back to the native command
checkPackageManagerAlwaysFallsBack(which, native) ==
    IF which # "exit0"
        THEN Checked(checkPackageManagerWithNativeCommand(native), TRUE)
        ELSE Checked(ExitStatus(which) = 0, FALSE)

checkPackageManager(which, native) ==
    IF which # "exit0"
        THEN IF IsExitError(which)
                THEN Checked(ExitStatus(which) = 0, FALSE)
                ELSE Checked(checkPackageManagerWithNativeCommand(native), TRUE)
        ELSE Checked(ExitStatus(which) = 0, FALSE)

(***************************************************************************)
(* Enumeration: the apk reconstruction and the parser of the listing.      *)
(***************************************************************************)
\* for i, pkg := range apkInfoWithVersionArray { ... apkInfoArray[i] ... }
\* an index past the end of apkInfoArray is a run-time panic
RECURSIVE ApkPairs(_, _, _)
ApkPairs(apkInfoArray, apkInfoWithVersionArray, i) ==
    IF i > Len(apkInfoWithVersionArray) THEN [panic |-> FALSE, mq |-> <<>>]
    ELSE IF i > Len(apkInfoArray) THEN [panic |-> TRUE, mq |-> <<>>]
    ELSE LET pkg == apkInfoWithVersionArray[i]
             name == apkInfoArray[i]
             line == name \o <<Comma>> \o Trim(ReplaceFirstWithEmpty(pkg, name), Hyphen)
             rest == ApkPairs(apkInfoArray, apkInfoWithVersionArray, i + 1)
         IN [panic |-> rest.panic, mq |-> <<line>> \o rest.mq]

ApkManagerQuery(apkInfo, apkInfoWithVersion) ==
    LET apkInfoArray == Split(TrimSuffix(apkInfo, <<NL>>), NL)
        apkInfoWithVersionArray == Split(TrimSuffix(apkInfoWithVersion, <<NL>>), NL)
        r == ApkPairs(apkInfoArray, apkInfoWithVersionArray, 1)
    IN [panic |-> r.panic, out |-> IF r.panic THEN <<>> ELSE Join(r.mq, NL)]

OsPkgInfo(os, pkgDetail) ==
    [Os |-> os.Name, OsVer |-> os.Version, Pkg |-> pkgDetail[1], PkgVer |-> pkgDetail[2]]

\* mutant: a malformed line ends the loop (break for continue)
RECURSIVE ParseLinesStopsAtMalformed(_, _)
ParseLinesStopsAtMalformed(lines, os) ==
    IF lines = <<>> THEN <<>>
    ELSE LET pkgDetail == Split(Head(lines), Comma)
         IN IF Len(pkgDetail) # 2
               THEN <<>>
               ELSE <<OsPkgInfo(os, pkgDetail)>> \o ParseLinesStopsAtMalformed(Tail(lines), os)

RECURSIVE ParseLines(_, _)
ParseLines(lines, os) ==
    IF lines = <<>> THEN <<>>
    ELSE LET pkgDetail == Split(Head(lines), Comma)
         IN IF Len(pkgDetail) # 2
               THEN ParseLines(Tail(lines), os)
               ELSE <<OsPkgInfo(os, pkgDetail)>> \o ParseLines(Tail(lines), os)

ParseManagerQuery(query, os) ==
    ParseLines(Split(TrimSuffix(query, <<NL>>), NL), os)

(***************************************************************************)
(* Kernel filtering.                                                       *)
(***************************************************************************)
\* mutant: the epoch is never removed
removeEpochFromPkgVersionKeepsEpoch(pkgVer) == pkgVer

removeEpochFromPkgVersion(pkgVer) ==
    IF Contains(pkgVer, <<Colon>>)
        THEN LET pkgVerSplit == Split(pkgVer, Colon)
             IN IF Len(pkgVerSplit) = 2 THEN pkgVerSplit[2] ELSE pkgVer
        ELSE pkgVer

\* mutant: the error of `uname -r` is ignored
detectActiveKernelIgnoresError(uname) ==
    [value |-> TrimSuffix(uname.out, <<NL>>), detected |-> TRUE]

\* uname: [ok |-> `uname -r` succeeded, out |-> its output]
detectActiveKernel(uname) ==
    IF ~uname.ok
        THEN [value |-> <<>>, detected |-> FALSE]
        ELSE [value |-> TrimSuffix(uname.out, <<NL>>), detected |-> TRUE]

\* the conditions under which the loop body reaches `continue`
IsInactiveKernelPkg(pkg, mgr, kernel) ==
    CASE mgr = "rpm" ->
            /\ pkg.Pkg = KernelPkgNameRpm
            /\ ~Contains(kernel, removeEpochFromPkgVersion(pkg.PkgVer))
      [] mgr = "dpkg-query" ->
            /\ Contains(pkg.Pkg, KernelPkgNameDpkg)
            /\ ~Contains(kernel, TrimPrefix(pkg.Pkg, KernelPkgNameDpkg))
      [] OTHER -> FALSE

\* mutant: the record is deleted in place while the loop advances, so the
\* record after a removed one is never examined
RECURSIVE FilterLoopDeletesInPlace(_, _, _, _)
FilterLoopDeletesInPlace(list, mgr, kernel, i) ==
    IF i >= Len(list) THEN <<>>
    ELSE IF IsInactiveKernelPkg(list[i + 1], mgr, kernel)
        THEN (IF i + 1 < Len(list) THEN <<list[i + 2]>> ELSE <<>>)
                \o FilterLoopDeletesInPlace(list, mgr, kernel, i + 2)
        ELSE <<list[i + 1]>> \o FilterLoopDeletesInPlace(list, mgr, kernel, i + 1)

\* for i, pkg := range manifest.OsPkgInfoList (i is 0-based; list[i + 1] here)
RECURSIVE FilterLoop(_, _, _, _)
FilterLoop(list, mgr, kernel, i) ==
    IF i >= Len(list) THEN <<>>
    ELSE IF IsInactiveKernelPkg(list[i + 1], mgr, kernel)
        THEN FilterLoop(list, mgr, kernel, i + 1)
        ELSE <<list[i + 1]>> \o FilterLoop(list, mgr, kernel, i + 1)

\* the OsPkgInfoList of the manifest the function returns
removeInactivePackagesFromManifest(list, mgr, uname) ==
    LET k == detectActiveKernel(uname)
    IN IF ~k.detected THEN list ELSE FilterLoop(list, mgr, k.value, 0)

\* Event.AddFeatureField
AddFeatureField(fields, key, value) ==
    [x \in (DOMAIN fields) \cup {key} |-> IF x = key THEN value ELSE fields[x]]

\* mutant: the field is numbered from one
SuppressedKeyOneBased(i) == "kernel_suppressed_" \o ToString(i + 1)

SuppressedKey(i) == "kernel_suppressed_" \o ToString(i)

\* the fields removeInactivePackagesFromManifest adds to the event
RECURSIVE SuppressedFields(_, _, _, _, _)
SuppressedFields(fields, list, mgr, kernel, i) ==
    IF i >= Len(list) THEN fields
    ELSE LET pkg == list[i + 1]
             f == IF IsInactiveKernelPkg(pkg, mgr, kernel)
                     THEN AddFeatureField(fields, SuppressedKey(i),
                                          pkg.Pkg \o <<Hyphen>> \o pkg.PkgVer)
                     ELSE fields
         IN SuppressedFields(f, list, mgr, kernel, i + 1)

FilterEventFields(fields, list, mgr, uname) ==
    LET k == detectActiveKernel(uname)
        f == AddFeatureField(fields, "active_kernel", k.value)
    IN IF ~k.detected THEN f ELSE SuppressedFields(f, list, mgr, k.value, 0)

(***************************************************************************)
(* What the host can answer: the inputs of the model.                      *)
(***************************************************************************)
SeqsUpTo(S, n) == UNION {[1..k -> S] : k \in 0..n}

\* "zypper" stands for a name the enumerator switch does not handle
ManagerNames == {"dpkg-query", "rpm", "yum", "apk", "zypper"}

ManagerLists == SeqsUpTo(ManagerNames, MaxManagers)

OsReleaseFiles ==
    { [ok |-> FALSE, data |-> <<>>],
      \* ID=u\nVERSION_ID="2"\r\n  (the last line ends in CR LF)
      [ok |-> TRUE,
       data |-> IdPrefix \o <<"u", NL>>
                \o VersionIdPrefix \o <<Quote, "2", Quote, CR, NL>>],
      \* NAME=x\nID="d"
      [ok |-> TRUE,
       data |-> <<"N", "A", "M", "E", "=", "x", NL>> \o IdPrefix \o <<Quote, "d", Quote>>],
      \* ID=d\n<a line of MaxScanTokenSize characters>\nVERSION_ID=2\n
      [ok |-> TRUE,
       data |-> IdPrefix \o <<"d", NL>> \o [i \in 1..MaxScanTokenSize |-> "x"] \o <<NL>>
                \o VersionIdPrefix \o <<"2", NL>>] }

Failed == [ok |-> FALSE, out |-> <<>>]
Succeeded(out) == [ok |-> TRUE, out |-> out]

ListingLines ==
    { KernelPkgNameRpm \o <<Comma, "0", Colon, "5">>,   \* kernel,0:5
      KernelPkgNameDpkg \o <<"5", Comma, "1">>,         \* linux-image-5,1
      <<"c">>,                                          \* one field
      <<"c", Comma, "1", Comma, "1">>,                  \* three fields
      <<>> }                                            \* empty line

ListingOutputs ==
    {Join(ls, NL) \o t : ls \in SeqsUpTo(ListingLines, MaxLines), t \in {<<>>, <<NL>>}}

ListingResults == {Failed} \cup {Succeeded(o) : o \in ListingOutputs}

\* every line of a non-empty apk listing ends with a line terminator
Terminated(ls) == IF ls = <<>> THEN <<>> ELSE Join(ls, NL) \o <<NL>>

ApkInfoResults ==
    {Failed} \cup
    {Succeeded(Terminated(ls)) : ls \in SeqsUpTo({<<"a">>, <<"b">>}, MaxLines)}

ApkInfoWithVersionResults ==
    {Failed} \cup
    {Succeeded(Terminated(ls)) :
        ls \in SeqsUpTo({<<"a", Hyphen, "1">>, <<"b", Hyphen, "2">>}, MaxLines)}

UnameResults == {Failed, Succeeded(<<"5", "g", NL>>), Succeeded(<<"6", NL>>)}

(***************************************************************************)
(* GeneratePackageManifest, one action per external interaction.           *)
(***************************************************************************)
Ran(command, ok) == [cmd |-> command, ok |-> ok]

NoKernel == [value |-> <<>>, detected |-> FALSE]

Init ==
    /\ SupportedPackageManagers \in ManagerLists
    /\ pc = "start"
    /\ osInfo = EmptyOS
    /\ probes = <<>>
    /\ lastWhich = "none"
    /\ lastNative = "none"
    /\ manager = ""
    /\ cmds = <<>>
    /\ managerQuery = <<>>
    /\ manifest = <<>>
    /\ activeKernel = NoKernel
    /\ event = <<>>
    /\ sent = 0
    /\ err = ErrNil
    /\ retErr = ErrNil
    /\ retManifest = <<>>
    /\ again = <<>>

\* the deferred closure: SendHoneyvent() only if the function-scope err is nil
DeferredSend(localErr) == IF localErr = ErrNil THEN sent + 1 ELSE sent

\* mutant: the error is recorded but the function does not return
ReturnErrorFallsThrough(localErr, e) ==
    /\ pc' = "filter"
    /\ err' = localErr
    /\ retErr' = e
    /\ retManifest' = manifest
    /\ sent' = sent

\* `return manifest, e` while the function-scope err holds localErr
ReturnError(localErr, e) ==
    /\ pc' = "done"
    /\ err' = localErr
    /\ retErr' = e
    /\ retManifest' = manifest
    /\ sent' = DeferredSend(localErr)

\* osInfo, err := c.GetOSInfo()
ReadOSInfo ==
    /\ pc = "start"
    /\ \E file \in OsReleaseFiles :
          LET r == GetOSInfo(file)
          IN /\ cmds' = Append(cmds, Ran("open /etc/os-release", file.ok))
             /\ osInfo' = r.osInfo
             /\ IF r.err # ErrNil
                   THEN /\ ReturnError(r.err, r.err)
                        /\ UNCHANGED event
                   ELSE /\ pc' = "detect"
                        /\ err' = ErrNil
                        /\ event' = AddFeatureField(
                                        AddFeatureField(event, "os", r.osInfo.Name),
                                        "os_ver", r.osInfo.Version)
                        /\ UNCHANGED <<retErr, retManifest, sent>>
    /\ UNCHANGED <<SupportedPackageManagers, probes, lastWhich, lastNative, manager,
                   managerQuery, manifest, activeKernel, again>>

\* mutant: the list is walked from its end
NextCandidateReversed(list, probed) == list[Len(list) - probed]

\* for _, manager := range SupportedPackageManagers: the manager probed after
\* `probed` presence checks
NextCandidate(list, probed) == list[probed + 1]

\* one iteration of the loop of DetectPackageManager
CheckPackageManager ==
    /\ pc = "detect"
    /\ Len(probes) < Len(SupportedPackageManagers)
    /\ \E which \in LookupOutcomes, native \in LookupOutcomes :
          LET m == NextCandidate(SupportedPackageManagers, Len(probes))
              checked == checkPackageManager(which, native)
              present == checked.present
          IN /\ lastWhich' = which
             /\ lastNative' = IF checked.native THEN native ELSE "none"
             /\ probes' = Append(probes, [manager |-> m, present |-> present])
             /\ IF present
                   THEN /\ manager' = m
                        /\ event' = AddFeatureField(event, "pkg_manager", m)
                        /\ pc' = "enumerate"
                   ELSE /\ pc' = "detect"
                        /\ UNCHANGED <<manager, event>>
    /\ UNCHANGED <<SupportedPackageManagers, osInfo, cmds, managerQuery, manifest,
                   activeKernel, sent, err, retErr, retManifest, again>>

\* the loop of DetectPackageManager ends without a manager
DetectFailed ==
    /\ pc = "detect"
    /\ Len(probes) = Len(SupportedPackageManagers)
    /\ ReturnError(ErrNoPackageManager, ErrNoPackageManager)
    /\ UNCHANGED <<SupportedPackageManagers, osInfo, probes, lastWhich, lastNative,
                   manager, cmds, managerQuery, manifest, activeKernel, event, again>>

\* the parser of the listing and the total_manifest_pkgs field
Enumerated(query) ==
    LET list == ParseManagerQuery(query, osInfo)
    IN /\ managerQuery' = query
       /\ manifest' = list
       /\ event' = AddFeatureField(event, "total_manifest_pkgs", Len(list))
       /\ pc' = "filter"
       /\ UNCHANGED <<err, retErr, retManifest, sent>>

\* case "rpm" / case "dpkg-query": managerQuery, err = exec.Command(...).Output()
QueryWith(name, command) ==
    /\ pc = "enumerate"
    /\ manager = name
    /\ \E q \in ListingResults :
          /\ cmds' = Append(cmds, Ran(command, q.ok))
          /\ IF ~q.ok
                THEN /\ ReturnError(ErrQuery, ErrQuery)
                     /\ UNCHANGED <<managerQuery, manifest, event>>
                ELSE Enumerated(q.out)
    /\ UNCHANGED <<SupportedPackageManagers, osInfo, probes, lastWhich, lastNative,
                   manager, activeKernel, again>>

QueryRpm == QueryWith("rpm", "rpm -qa")

QueryDpkg == QueryWith("dpkg-query", "dpkg-query --show")

\* case "yum": return manifest, errors.New(...); the function-scope err is not set
QueryYum ==
    /\ pc = "enumerate"
    /\ manager = "yum"
    /\ ReturnError(err, ErrYum)
    /\ UNCHANGED <<SupportedPackageManagers, osInfo, probes, lastWhich, lastNative,
                   manager, cmds, managerQuery, manifest, activeKernel, event, again>>

\* case "apk": both errs are declared with := inside the case clause and shadow
\* the function-scope err
QueryApk ==
    /\ pc = "enumerate"
    /\ manager = "apk"
    /\ \E apkInfo \in ApkInfoResults, apkInfoWithVersion \in ApkInfoWithVersionResults :
          IF ~apkInfo.ok
             THEN /\ cmds' = Append(cmds, Ran("apk info", FALSE))
                  /\ ReturnError(err, ErrQuery)
                  /\ UNCHANGED <<managerQuery, manifest, event>>
          ELSE IF ~apkInfoWithVersion.ok
             THEN /\ cmds' = cmds \o <<Ran("apk info", TRUE), Ran("apk info -v", FALSE)>>
                  /\ ReturnError(err, ErrQuery)
                  /\ UNCHANGED <<managerQuery, manifest, event>>
          ELSE LET r == ApkManagerQuery(apkInfo.out, apkInfoWithVersion.out)
               IN /\ cmds' = cmds \o <<Ran("apk info", TRUE), Ran("apk info -v", TRUE)>>
                  /\ IF r.panic
                        THEN /\ pc' = "panic"
                             /\ sent' = DeferredSend(err)
                             /\ UNCHANGED <<managerQuery, manifest, event, err,
                                            retErr, retManifest>>
                        ELSE Enumerated(r.out)
    /\ UNCHANGED <<SupportedPackageManagers, osInfo, probes, lastWhich, lastNative,
                   manager, activeKernel, again>>

\* default: return manifest, errors.New(...)
QueryDefault ==
    /\ pc = "enumerate"
    /\ manager \notin {"rpm", "dpkg-query", "yum", "apk"}
    /\ ReturnError(err, ErrMistake)
    /\ UNCHANGED <<SupportedPackageManagers, osInfo, probes, lastWhich, lastNative,
                   manager, cmds, managerQuery, manifest, activeKernel, event, again>>

\* return c.removeInactivePackagesFromManifest(manifest, manager), nil
FilterAndReturn ==
    /\ pc = "filter"
    /\ \E uname \in UnameResults :
          /\ activeKernel' = detectActiveKernel(uname)
          /\ event' = FilterEventFields(event, manifest, manager, uname)
          /\ retManifest' = removeInactivePackagesFromManifest(manifest, manager, uname)
          /\ cmds' = Append(cmds, Ran("uname -r", uname.ok))
    /\ retErr' = ErrNil
    /\ sent' = DeferredSend(err)
    /\ pc' = "done"
    /\ UNCHANGED <<SupportedPackageManagers, osInfo, probes, lastWhich, lastNative,
                   manager, managerQuery, manifest, err, again>>

Next ==
    \/ ReadOSInfo
    \/ CheckPackageManager
    \/ DetectFailed
    \/ QueryRpm
    \/ QueryDpkg
    \/ QueryYum
    \/ QueryApk
    \/ QueryDefault
    \/ FilterAndReturn

Spec == Init /\ [][Next]_vars

(***************************************************************************)
(* removeInactivePackagesFromManifest called on its own, on any manifest,  *)
(* and called once more on what it returned.                               *)
(***************************************************************************)
Version5 == <<"0", Colon, "5">>           \* 0:5
Version6 == <<"0", Colon, "6">>           \* 0:6
VersionNoEpoch == <<"5">>                 \* 5
VersionTwoColons == <<"1", Colon, "0", Colon, "5">>   \* 1:0:5

FilterRecord(name, version) ==
    [Os |-> <<"u">>, OsVer |-> <<"2">>, Pkg |-> name, PkgVer |-> version]

FilterRecords ==
    {FilterRecord(KernelPkgNameRpm, v) :
        v \in {Version5, Version6, VersionNoEpoch, VersionTwoColons}}
    \cup
    {FilterRecord(n, <<"1">>) :
        n \in { <<"c">>,
                KernelPkgNameDpkg \o <<"5">>,           \* linux-image-5
                KernelPkgNameDpkg \o <<"6">>,           \* linux-image-6
                KernelPkgNameDpkg,                      \* linux-image-
                <<"x">> \o KernelPkgNameDpkg \o <<"5">> }}  \* xlinux-image-5

FilterManifests == SeqsUpTo(FilterRecords, MaxRecords)

\* "apk" stands for every manager the filter's switch has no case for
FilterManagers == {"rpm", "dpkg-query", "apk"}

FilterUnameResults ==
    { Failed,
      Succeeded(<<"5", "g", NL>>),
      Succeeded(<<"6", NL>>),
      Succeeded(<<"0", Colon, "5", NL>>),
      Succeeded(<<NL>>) }

InitFilter ==
    /\ SupportedPackageManagers = <<"dpkg-query", "rpm">>
    /\ pc = "filter_call"
    /\ osInfo = EmptyOS
    /\ probes = <<>>
    /\ lastWhich = "none"
    /\ lastNative = "none"
    /\ manager \in FilterManagers
    /\ cmds = <<>>
    /\ managerQuery = <<>>
    /\ manifest \in FilterManifests
    /\ activeKernel = NoKernel
    /\ event = <<>>
    /\ sent = 0
    /\ err = ErrNil
    /\ retErr = ErrNil
    /\ retManifest = <<>>
    /\ again = <<>>

CallRemoveInactive ==
    /\ pc = "filter_call"
    /\ \E uname \in FilterUnameResults :
          /\ activeKernel' = detectActiveKernel(uname)
          /\ event' = FilterEventFields(event, manifest, manager, uname)
          /\ retManifest' = removeInactivePackagesFromManifest(manifest, manager, uname)
          /\ cmds' = Append(cmds, Ran("uname -r", uname.ok))
    /\ pc' = "filter_returned"
    /\ UNCHANGED <<SupportedPackageManagers, osInfo, probes, lastWhich, lastNative,
                   manager, managerQuery, manifest, sent, err, retErr, again>>

\* the second call sees the same active kernel value as the first
CallRemoveInactiveAgain ==
    /\ pc = "filter_returned"
    /\ \E uname \in FilterUnameResults :
          /\ detectActiveKernel(uname) = activeKernel
          /\ again' = removeInactivePackagesFromManifest(retManifest, manager, uname)
          /\ cmds' = Append(cmds, Ran("uname -r", uname.ok))
    /\ pc' = "filter_twice"
    /\ UNCHANGED <<SupportedPackageManagers, osInfo, probes, lastWhich, lastNative,
                   manager, managerQuery, manifest, activeKernel, event, sent, err,
                   retErr, retManifest>>

NextFilter ==
    \/ CallRemoveInactive
    \/ CallRemoveInactiveAgain

SpecFilter == InitFilter /\ [][NextFilter]_vars

(***************************************************************************)
(* Vocabulary of the properties, stated on characters and positions and    *)
(* not through the operators that model the code.                          *)
(***************************************************************************)
StartsWith(s, p) == Len(p) <= Len(s) /\ \A i \in 1..Len(p) : s[i] = p[i]

IsSubstringOf(sub, s) ==
    \E off \in 0..(Len(s) - Len(sub)) : \A j \in 1..Len(sub) : s[off + j] = sub[j]

From(s, first) == [i \in 1..(Len(s) - first + 1) |-> s[first + i - 1]]

Positions(s, c) == {i \in 1..Len(s) : s[i] = c}

FirstPosition(s, c) == CHOOSE i \in Positions(s, c) : \A j \in Positions(s, c) : i <= j

FilterRan == pc \in {"filter_returned", "filter_twice"}

(***************************************************************************)
(* C1  Under dpkg-query with the active kernel detected, the filter        *)
(* removes exactly the records whose name starts with linux-image- and     *)
(* whose remainder is not a substring of the active kernel; every other    *)
(* record, also one that has linux-image- elsewhere in its name, is kept   *)
(* in order.                                                               *)
(***************************************************************************)
C1_DpkgRemovesExactlyPrefixed ==
    LET Keep(r) ==
            ~ (/\ StartsWith(r.Pkg, KernelPkgNameDpkg)
               /\ ~IsSubstringOf(From(r.Pkg, Len(KernelPkgNameDpkg) + 1),
                                 activeKernel.value))
    IN (FilterRan /\ manager = "dpkg-query" /\ activeKernel.detected)
          => retManifest = SelectSeq(manifest, Keep)

(***************************************************************************)
(* C2  Under rpm with the active kernel detected, the filter removes       *)
(* exactly the records named kernel whose epoch-stripped version is not a  *)
(* substring of the active kernel; all others pass through in order.       *)
(* As claimed, the epoch is everything up to the first colon, for any      *)
(* number of colons.                                                       *)
(***************************************************************************)
StripToFirstColon(v) ==
    IF Positions(v, Colon) = {} THEN v ELSE From(v, FirstPosition(v, Colon) + 1)

C2_RpmStripsToFirstColon ==
    LET Keep(r) ==
            ~ (/\ r.Pkg = KernelPkgNameRpm
               /\ ~IsSubstringOf(StripToFirstColon(r.PkgVer), activeKernel.value))
    IN (FilterRan /\ manager = "rpm" /\ activeKernel.detected)
          => retManifest = SelectSeq(manifest, Keep)

\* C2 as amended: the epoch is stripped only from a version that holds exactly
\* one colon; a version with no colon or with several is compared as it is.
StripSingleEpoch(v) ==
    IF Cardinality(Positions(v, Colon)) = 1
        THEN From(v, FirstPosition(v, Colon) + 1)
        ELSE v

C2_RpmStripsSingleEpoch ==
    LET Keep(r) ==
            ~ (/\ r.Pkg = KernelPkgNameRpm
               /\ ~IsSubstringOf(StripSingleEpoch(r.PkgVer), activeKernel.value))
    IN (FilterRan /\ manager = "rpm" /\ activeKernel.detected)
          => retManifest = SelectSeq(manifest, Keep)

\* an rpm run that drops one kernel record and keeps another, with a
\* two-colon version among the records
C2_Witness ==
    /\ pc = "filter_returned"
    /\ manager = "rpm"
    /\ activeKernel.detected
    /\ \E i \in 1..Len(manifest) :
          /\ manifest[i].Pkg = KernelPkgNameRpm
          /\ Cardinality(Positions(manifest[i].PkgVer, Colon)) = 2
    /\ \E i \in 1..Len(retManifest) :
          /\ retManifest[i].Pkg = KernelPkgNameRpm
          /\ Cardinality(Positions(retManifest[i].PkgVer, Colon)) = 1
    /\ Len(retManifest) < Len(manifest)

(***************************************************************************)
(* C3  The telemetry event is sent exactly once by a run that returns no   *)
(* error and not at all by a run that returns an error, whichever step     *)
(* produced the error.                                                     *)
(***************************************************************************)
C3_TelemetryIffNoError ==
    pc = "done" => sent = (IF retErr = ErrNil THEN 1 ELSE 0)

(***************************************************************************)
(* C4  DetectPackageManager probes the list in order, stops at the first   *)
(* manager whose presence check succeeds and returns it, and returns the   *)
(* no-package-manager error exactly when every check failed.               *)
(***************************************************************************)
DetectionOver == pc \notin {"start", "detect"} /\ retErr # ErrUnsupportedPlatform

AllAbsent ==
    /\ Len(probes) = Len(SupportedPackageManagers)
    /\ \A j \in 1..Len(probes) : ~probes[j].present

C4_FirstPresentInListOrder ==
    LET n == Len(probes)
    IN /\ n <= Len(SupportedPackageManagers)
       /\ \A j \in 1..n : probes[j].manager = SupportedPackageManagers[j]
       /\ \A j \in 1..(n - 1) : ~probes[j].present
       /\ manager # "" => (n >= 1 /\ probes[n].present /\ manager = probes[n].manager)
       /\ DetectionOver => (retErr = ErrNoPackageManager <=> AllAbsent)
       /\ DetectionOver => (manager = "" <=> AllAbsent)

\* the first of two different managers is returned and the second never probed
C4_Witness ==
    /\ pc = "done"
    /\ Len(SupportedPackageManagers) = 2
    /\ SupportedPackageManagers[1] # SupportedPackageManagers[2]
    /\ manager = SupportedPackageManagers[1]
    /\ Len(probes) = 1

(***************************************************************************)
(* C5  The steps run in the order read OS info, detect manager, enumerate, *)
(* filter, and a step starts only if every earlier one succeeded; a failed *)
(* run returns its error with a manifest that holds no record.             *)
(***************************************************************************)
StepRank(c) ==
    CASE c.cmd = "open /etc/os-release" -> 1
      [] c.cmd \in {"rpm -qa", "dpkg-query --show", "apk info"} -> 2
      [] c.cmd = "apk info -v" -> 3
      [] c.cmd = "uname -r" -> 4

RanListing == \E i \in 1..Len(cmds) : StepRank(cmds[i]) \in {2, 3}
RanUname == \E i \in 1..Len(cmds) : StepRank(cmds[i]) = 4
ListingSucceeded ==
    /\ RanListing
    /\ \A i \in 1..Len(cmds) : StepRank(cmds[i]) \in {2, 3} => cmds[i].ok
    /\ manager = "apk" => \E i \in 1..Len(cmds) : StepRank(cmds[i]) = 3

C5_StepsInOrder ==
    /\ \A i \in 1..(Len(cmds) - 1) :
          cmds[i].ok /\ StepRank(cmds[i]) < StepRank(cmds[i + 1])
    /\ (probes # <<>> \/ RanListing \/ RanUname) =>
          (cmds # <<>> /\ cmds[1] = Ran("open /etc/os-release", TRUE))
    /\ (RanListing \/ RanUname) =>
          (manager # "" /\ probes # <<>> /\ probes[Len(probes)].present)
    /\ RanUname => (ListingSucceeded /\ manager \in {"rpm", "dpkg-query", "apk"})
    /\ (pc = "done" /\ ~RanUname) => (retErr # ErrNil /\ retManifest = <<>>)
    /\ (pc = "done" /\ retErr # ErrNil) => (~RanUname /\ retManifest = <<>>)

\* a run whose listing command failed
C5_Witness ==
    /\ pc = "done"
    /\ Len(cmds) = 2
    /\ cmds[2] = Ran("rpm -qa", FALSE)
    /\ retErr = ErrQuery

(***************************************************************************)
(* C6  When uname -r fails, the filter returns the records it was given,   *)
(* unchanged and in order, and GeneratePackageManifest returns no error.   *)
(***************************************************************************)
UnameFailed == cmds # <<>> /\ cmds[Len(cmds)] = Ran("uname -r", FALSE)

C6_KernelQueryFailureKeepsManifest ==
    (pc = "done" /\ UnameFailed) => (retManifest = manifest /\ retErr = ErrNil)

\* uname -r failed in an rpm run whose manifest holds a kernel record
C6_Witness ==
    /\ pc = "done"
    /\ UnameFailed
    /\ manager = "rpm"
    /\ Len(manifest) = 2
    /\ \E i \in 1..Len(manifest) : manifest[i].Pkg = KernelPkgNameRpm

(***************************************************************************)
(* C7  The enumerated manifest holds exactly one record per listing line   *)
(* with exactly two comma-separated fields, in line order, with the OS     *)
(* name and version read earlier; any other line contributes nothing and   *)
(* neither stops the parsing nor fails the call.                           *)
(***************************************************************************)
ListingBody ==
    IF managerQuery # <<>> /\ managerQuery[Len(managerQuery)] = NL
        THEN [i \in 1..(Len(managerQuery) - 1) |-> managerQuery[i]]
        ELSE managerQuery

KthPosition(s, c, k) ==
    CHOOSE p \in Positions(s, c) : Cardinality({q \in Positions(s, c) : q < p}) = k - 1

LineCount == Cardinality(Positions(ListingBody, NL)) + 1

ListingLine(k) ==
    LET first == IF k = 1 THEN 1 ELSE KthPosition(ListingBody, NL, k - 1) + 1
        last == IF k = LineCount THEN Len(ListingBody)
                ELSE KthPosition(ListingBody, NL, k) - 1
    IN [i \in 1..(last - first + 1) |-> ListingBody[first + i - 1]]

HasTwoFields(line) == Cardinality(Positions(line, Comma)) = 1

RecordOfLine(line) ==
    LET comma == FirstPosition(line, Comma)
    IN [Os |-> osInfo.Name,
        OsVer |-> osInfo.Version,
        Pkg |-> [i \in 1..(comma - 1) |-> line[i]],
        PkgVer |-> From(line, comma + 1)]

ExpectedManifest ==
    LET good == SelectSeq([k \in 1..LineCount |-> ListingLine(k)], HasTwoFields)
    IN [i \in 1..Len(good) |-> RecordOfLine(good[i])]

C7_OneRecordPerTwoFieldLine ==
    (pc = "filter" \/ (pc = "done" /\ RanUname)) =>
        (manifest = ExpectedManifest /\ retErr = ErrNil)

\* a malformed first line followed by a line that is recorded
C7_Witness ==
    /\ pc = "filter"
    /\ LineCount = 2
    /\ ~HasTwoFields(ListingLine(1))
    /\ ListingLine(1) # <<>>
    /\ HasTwoFields(ListingLine(2))
    /\ Len(manifest) = 1

(***************************************************************************)
(* C8  Kernel filtering is idempotent: filtering the filter's own output   *)
(* with the same active kernel returns the same records in the same order. *)
(***************************************************************************)
C8_FilterIdempotent == pc = "filter_twice" => again = retManifest

\* a first pass that removed a record and kept another, filtered again
C8_Witness ==
    /\ pc = "filter_twice"
    /\ activeKernel.detected
    /\ retManifest # <<>>
    /\ Len(retManifest) < Len(manifest)

(***************************************************************************)
(* C9  checkPackageManager tries command -v exactly when which could not   *)
(* be invoked; a manager is present exactly when which exits 0, or which   *)
(* could not be invoked and command -v exits 0.                            *)
(***************************************************************************)
C9_FallbackOnlyWhenWhichNotInvoked ==
    probes # <<>> =>
        /\ lastNative # "none" <=> lastWhich = "notstarted"
        /\ probes[Len(probes)].present <=>
              \/ lastWhich = "exit0"
              \/ lastWhich = "notstarted" /\ lastNative = "exit0"

\* which could not be invoked and the fallback found the manager
C9_Witness ==
    /\ probes # <<>>
    /\ lastWhich = "notstarted"
    /\ lastNative = "exit0"
    /\ probes[Len(probes)].present

(***************************************************************************)
(* C10  Under apk, when both listings succeed but differ in their number   *)
(* of entries, in either direction, enumeration still completes: it does   *)
(* not abort and returns no error.                                         *)
(***************************************************************************)
BothApkListingsSucceeded ==
    /\ manager = "apk"
    /\ \E i \in 1..Len(cmds) : cmds[i] = Ran("apk info -v", TRUE)

C10_ApkDivergenceCompletes ==
    BothApkListingsSucceeded =>
        (pc \in {"filter", "done"} /\ retErr = ErrNil)

(***************************************************************************)
(* C11  After a successful run the telemetry fields account for the        *)
(* returned manifest: total_manifest_pkgs is the number of records         *)
(* enumerated before filtering, there is exactly one kernel_suppressed_<i> *)
(* field per removed record, <i> being its 0-based index in the pre-filter *)
(* manifest, and the returned manifest has total_manifest_pkgs minus the   *)
(* number of those fields records.                                         *)
(***************************************************************************)
SuccessfulRun == pc = "done" /\ retErr = ErrNil

SuppressedIndexes ==
    {i \in 0..(Len(manifest) - 1) : ("kernel_suppressed_" \o ToString(i)) \in DOMAIN event}

OtherEventKeys == {"os", "os_ver", "pkg_manager", "total_manifest_pkgs", "active_kernel"}

\* the pre-filter manifest without the records at the suppressed indexes
ManifestWithoutSuppressed ==
    LET NotSuppressed(k) == (k - 1) \notin SuppressedIndexes
        kept == SelectSeq([k \in 1..Len(manifest) |-> k], NotSuppressed)
    IN [j \in 1..Len(kept) |-> manifest[kept[j]]]

C11_TelemetryAccountsForManifest ==
    SuccessfulRun =>
        /\ "total_manifest_pkgs" \in DOMAIN event
        /\ event["total_manifest_pkgs"] = Len(manifest)
        /\ Cardinality(DOMAIN event \ OtherEventKeys) = Cardinality(SuppressedIndexes)
        /\ retManifest = ManifestWithoutSuppressed
        /\ Len(retManifest) =
              event["total_manifest_pkgs"] - Cardinality(DOMAIN event \ OtherEventKeys)

\* the second of two records was removed and the first kept
C11_Witness ==
    /\ SuccessfulRun
    /\ Len(manifest) = 2
    /\ Len(retManifest) = 1
    /\ retManifest[1] = manifest[1]
    /\ manifest[1] # manifest[2]
    /\ SuppressedIndexes = {1}

====
